---- MODULE Spec2Model ----
(***************************************************************************)
(* Model of the seller-apis synchronisation scripts: seller.py (Ozon) and  *)
(* market.py (Yandex Market).  Texts (quantities, prices) are sequences of *)
(* one-character strings so that parsing and stripping are computed.       *)
(***************************************************************************)
EXTENDS Integers, Sequences, FiniteSets, TLC

VARIABLES
    pc,              \* position of the call or run being modelled
    raised,          \* the exception in flight or caught ("none" when none)
    watch_remnants,  \* the vendor feed records (download_stock's result)
    listed,          \* the identifiers the caller holds before reconciliation
    offer_ids,       \* the offer-identifier list object handed to create_stocks
    stocks,          \* create_stocks' returned list
    stocks2,         \* the returned list of a second create_stocks call
    prices,          \* create_prices' returned list
    clock,           \* the UTC clock, in whole seconds
    variant,         \* which create_stocks ran: "ozon" or "market"
    lst,             \* divide's list argument
    n,               \* divide's chunk size argument
    chunks,          \* list(divide(lst, n)), which the upload loop walks
    taken,           \* number of chunks the upload loop has taken
    calls,           \* the write calls issued to the marketplace, in order
    price,           \* price_conversion's argument
    result,          \* price_conversion's returned text
    platform,        \* whose get_offer_ids runs: "ozon" or "market"
    last_id,         \* seller.get_offer_ids' cursor
    page,            \* market.get_offer_ids' cursor
    product_list,    \* the products accumulated by get_offer_ids
    total,           \* the total of the latest Ozon response
    requests,        \* number of catalog requests made to the marketplace
    sent,            \* the cursor carried by the latest page request
    issued,          \* the cursor returned by the latest page response
    served,          \* the identifiers of all items the marketplace served
    archive,         \* the rows of the spreadsheet in the vendor's archive
    file,            \* ostatki.xls in the working directory
    printed,         \* what main's handler printed ("none" when nothing)
    campaign,        \* the campaign market.main is at: "fbs" or "dbs"
    catalog,         \* the identifiers listed on the marketplace, in page order
    changes          \* number of listings added or removed during a fetch

dataVars == <<watch_remnants, listed, offer_ids, stocks, stocks2, prices,
              clock, variant>>
loopVars == <<chunks, taken, calls>>
divideVars == <<lst, n>>
priceVars == <<price, result>>
fetchVars == <<platform, last_id, page, product_list, total, requests, sent,
               issued, served>>

feedVars == <<archive, file>>
runVars == <<printed, campaign>>
serverVars == <<catalog, changes>>

vars == <<pc, raised, dataVars, loopVars, divideVars, priceVars, fetchVars,
          feedVars, runVars, serverVars>>

DataIdle ==
    /\ watch_remnants = <<>> /\ listed = <<>> /\ offer_ids = <<>>
    /\ stocks = <<>> /\ stocks2 = <<>> /\ prices = <<>>
    /\ clock = 0 /\ variant = "none"

LoopIdle == chunks = <<>> /\ taken = 0 /\ calls = <<>>

DivideIdle == lst = <<>> /\ n = 1

PriceIdle == price = <<>> /\ result = <<>>

NoFile == [exists |-> FALSE, rows |-> <<>>]

FeedIdle == archive = <<>> /\ file = NoFile

RunIdle == printed = "none" /\ campaign = "none"

ServerIdle == catalog = <<>> /\ changes = 0

FetchIdle ==
    /\ platform = "none" /\ last_id = "" /\ page = "" /\ product_list = <<>>
    /\ total = 0 /\ requests = 0 /\ sent = "" /\ issued = "" /\ served = {}

----------------------------------------------------------------------------
(* Bounds of the model *)

MaxWatches == 2      \* longest vendor feed drawn
MaxOffers == 3       \* longest offer-identifier list drawn
MaxClock == 1        \* last clock second modelled
MaxLen == 4          \* longest list handed to divide
MaxChunk == 3        \* largest chunk size handed to divide
MaxPriceLen == 3     \* longest price text drawn from PriceChars
MaxPages == 3        \* most page requests one fetch makes
PageLen == 1         \* most items on one served page
MaxTotal == 3        \* largest total an Ozon response reports

----------------------------------------------------------------------------
(* Texts *)

DigitChars == {"0", "1", "2", "3", "4", "5", "6", "7", "8", "9"}

DigitVal(c) ==
    CASE c = "0" -> 0 [] c = "1" -> 1 [] c = "2" -> 2 [] c = "3" -> 3
      [] c = "4" -> 4 [] c = "5" -> 5 [] c = "6" -> 6 [] c = "7" -> 7
      [] c = "8" -> 8 [] c = "9" -> 9

\* int(text) raises ValueError unless the text is a decimal numeral
IsIntText(s) == Len(s) > 0 /\ \A i \in 1..Len(s) : s[i] \in DigitChars

RECURSIVE ParseInt(_)
ParseInt(s) ==
    IF s = <<>> THEN 0
    ELSE 10 * ParseInt(SubSeq(s, 1, Len(s) - 1)) + DigitVal(s[Len(s)])

QtyMany == <<">", "1", "0">>
QtyOne == <<"1">>
QtySeven == <<"7">>
QtyTwelve == <<"1", "2">>
QtyBlank == <<>>

\* the quantity texts of the data model: ">10", "1", or a numeral
IsQuantityText(q) == q = QtyMany \/ IsIntText(q)

\* a spreadsheet cell is a text (str) or a number (float)
Str(chars) == [type |-> "str", text |-> chars]
Float(value) == [type |-> "float", value |-> value]

PriceHundred == Str(<<"1", "0", "0", ".", "0", "0", " ", "x">>)
PriceFifty == Str(<<"5", "0", ".", "0", "0", " ", "x">>)
PriceRub == Str(<<"5", "'", "9", "9", "0", ".", "0", "0", " ", "r", ".">>)
PriceNoDot == Str(<<"7", "5", "0", " ", "r">>)
PriceFloat == Float(5990)

Ids == {"A1", "A2", "A3"}

\* rows of the vendor spreadsheet: Код, Количество, Цена
Watch(kod, kolichestvo, tsena) ==
    [code |-> kod, quantity |-> kolichestvo, price |-> tsena]

FeedRows ==
    { Watch("A1", QtyMany, PriceHundred),
      Watch("A2", QtyOne, PriceFifty),
      Watch("A3", QtySeven, PriceRub),
      Watch("A1", QtyTwelve, PriceNoDot),
      Watch("A2", QtyBlank, PriceFifty) }

SeqsUpTo(S, m) == UNION { [1..k -> S] : k \in 0..m }

Range(s) == { s[i] : i \in 1..Len(s) }

NoDuplicates(s) == \A i, j \in 1..Len(s) : s[i] = s[j] => i = j

----------------------------------------------------------------------------
(* Reconciler: create_stocks *)

\* a faulty remove that leaves the list as it is
RemoveNothing(s, x) == s

\* list.remove(x): drops the first element equal to x
RECURSIVE Remove(_, _)
Remove(s, x) ==
    IF s = <<>> THEN <<>>
    ELSE IF Head(s) = x THEN Tail(s)
    ELSE <<Head(s)>> \o Remove(Tail(s), x)

\* the quantity rule; int() of anything else than a numeral raises
StockRaises(quantity) ==
    quantity # QtyMany /\ quantity # QtyOne /\ ~IsIntText(quantity)

\* a faulty rule without the "1" branch
StockCountNoOne(quantity) ==
    IF quantity = QtyMany THEN 100 ELSE ParseInt(quantity)

StockCount(quantity) ==
    IF quantity = QtyMany THEN 100
    ELSE IF quantity = QtyOne THEN 0
    ELSE ParseInt(quantity)

\* the first loop of create_stocks: the matched <<code, count>> pairs, the
\* list as the removals leave it, and whether int() raised on the way
RECURSIVE MatchLoop(_, _, _)
MatchLoop(watches, ids, out) ==
    IF watches = <<>> THEN [matched |-> out, rest |-> ids, raised |-> FALSE]
    ELSE LET watch == Head(watches) IN
         IF watch.code \in Range(ids)
         THEN IF StockRaises(watch.quantity)
              THEN [matched |-> out, rest |-> ids, raised |-> TRUE]
              ELSE MatchLoop(Tail(watches), Remove(ids, watch.code),
                             Append(out, <<watch.code, StockCount(watch.quantity)>>))
         ELSE MatchLoop(Tail(watches), ids, out)

\* the pairs create_stocks turns into records: matched ones, then zero
\* records for what is left of the list
StockPairs(watches, ids) ==
    LET m == MatchLoop(watches, ids, <<>>) IN
    m.matched \o [i \in 1..Len(m.rest) |-> <<m.rest[i], 0>>]

OzonStock(pair) == [offer_id |-> pair[1], stock |-> pair[2]]

MarketStock(pair, warehouse_id, date) ==
    [sku |-> pair[1], warehouseId |-> warehouse_id,
     items |-> <<[count |-> pair[2], type |-> "FIT", updatedAt |-> date]>>]

\* seller.create_stocks: returned list (meaningless when it raised)
create_stocks(watches, ids) ==
    LET p == StockPairs(watches, ids) IN [i \in 1..Len(p) |-> OzonStock(p[i])]

\* market.create_stocks
market_create_stocks(watches, ids, warehouse_id, date) ==
    LET p == StockPairs(watches, ids) IN
    [i \in 1..Len(p) |-> MarketStock(p[i], warehouse_id, date)]

\* the identifier and the count of a stock record of either shape
StockId(r) == IF "offer_id" \in DOMAIN r THEN r.offer_id ELSE r.sku
StockNum(r) == IF "offer_id" \in DOMAIN r THEN r.stock ELSE r.items[1].count

----------------------------------------------------------------------------
(* Two calls of create_stocks on the same inputs *)

ReconInit ==
    /\ pc = "start"
    /\ watch_remnants \in SeqsUpTo(FeedRows, MaxWatches)
    /\ listed \in SeqsUpTo(Ids, MaxOffers)
    /\ offer_ids = listed
    /\ stocks = <<>>
    /\ stocks2 = <<>>
    /\ prices = <<>>
    /\ clock = 0
    /\ variant = "none"
    /\ raised = "none"
    /\ LoopIdle /\ DivideIdle /\ PriceIdle /\ FetchIdle /\ FeedIdle /\ RunIdle /\ ServerIdle

reconRest == <<loopVars, divideVars, priceVars, fetchVars, feedVars, runVars, serverVars>>

Stocks(v, watches, ids) ==
    IF v = "ozon" THEN create_stocks(watches, ids)
    ELSE market_create_stocks(watches, ids, "wh", clock)

\* create_stocks(watch_remnants, offer_ids), either variant
CallCreateStocks ==
    /\ pc = "start"
    /\ \E v \in {"ozon", "market"} :
         LET m == MatchLoop(watch_remnants, offer_ids, <<>>) IN
         /\ variant' = v
         /\ offer_ids' = m.rest
         /\ IF m.raised
            THEN /\ raised' = "ValueError"
                 /\ stocks' = stocks
                 /\ pc' = "raised"
            ELSE /\ raised' = raised
                 /\ stocks' = Stocks(v, watch_remnants, offer_ids)
                 /\ pc' = "called"
    /\ UNCHANGED <<watch_remnants, listed, stocks2, prices, clock, reconRest>>

\* the clock moves on between the two calls
Tick ==
    /\ pc = "called"
    /\ clock < MaxClock
    /\ clock' = clock + 1
    /\ UNCHANGED <<pc, watch_remnants, listed, offer_ids, stocks, stocks2,
                   prices, variant, raised, reconRest>>

\* a second call with fresh copies of the same inputs
CallAgainWithCopy ==
    /\ pc = "called"
    /\ stocks2' = Stocks(variant, watch_remnants, listed)
    /\ pc' = "again_copy"
    /\ UNCHANGED <<watch_remnants, listed, offer_ids, stocks, prices, clock,
                   variant, raised, reconRest>>

\* a second call with the list object the first call drained
CallAgainSameList ==
    /\ pc = "called"
    /\ stocks2' = Stocks(variant, watch_remnants, offer_ids)
    /\ offer_ids' = MatchLoop(watch_remnants, offer_ids, <<>>).rest
    /\ pc' = "again_same"
    /\ UNCHANGED <<watch_remnants, listed, stocks, prices, clock, variant, raised,
                   reconRest>>

ReconNext == CallCreateStocks \/ Tick \/ CallAgainWithCopy \/ CallAgainSameList

SpecRecon == ReconInit /\ [][ReconNext]_vars

----------------------------------------------------------------------------
(* Properties of create_stocks, checked under SpecRecon *)

WatchCodes == { watch_remnants[i].code : i \in 1..Len(watch_remnants) }

\* the first vendor record with this code: the one whose code is still in the
\* list when the loop reaches it
FirstWatch(code) ==
    watch_remnants[CHOOSE i \in 1..Len(watch_remnants) :
        /\ watch_remnants[i].code = code
        /\ \A j \in 1..(i - 1) : watch_remnants[j].code # code]

RecordsOf(out, id) == { i \in 1..Len(out) : StockId(out[i]) = id }

\* C1: reconciliation is total and partition-preserving.  For a feed whose
\* quantities are quantity texts of the data model the call returns; whenever
\* it returns, the list has exactly len(O) records, every identifier of a
\* duplicate-free O is in exactly one record and no other identifier is in
\* any; with an empty feed every record is a zero fallback of the untouched
\* list, and when the feed's codes cover O no fallback record is left.
C1_Partition ==
    /\ (/\ pc = "raised"
        /\ \A i \in 1..Len(watch_remnants) :
              IsQuantityText(watch_remnants[i].quantity)) => FALSE
    /\ pc = "called" =>
        /\ Len(stocks) = Len(listed)
        /\ \A i \in 1..Len(stocks) : StockId(stocks[i]) \in Range(listed)
        /\ watch_remnants = <<>> =>
              /\ offer_ids = listed
              /\ \A i \in 1..Len(stocks) : StockNum(stocks[i]) = 0
        /\ NoDuplicates(listed) =>
              /\ \A id \in Range(listed) : Cardinality(RecordsOf(stocks, id)) = 1
              /\ Range(listed) \subseteq WatchCodes => offer_ids = <<>>

\* C1 witness: a returned call on three distinct identifiers of which some
\* matched a vendor record and some fell back to zero
C1_Witness ==
    /\ pc = "called"
    /\ Len(listed) = 3 /\ NoDuplicates(listed)
    /\ 0 < Len(offer_ids) /\ Len(offer_ids) < Len(listed)
    /\ Len(stocks) = 3

\* the count the quantity rule prescribes for a quantity text
ClaimedCount(q) ==
    CASE q = QtyMany -> 100
      [] q = QtyOne -> 0
      [] OTHER -> ParseInt(q)

\* C8: the count emitted for a vendor record whose code is in the list is 100
\* for ">10", 0 for "1", otherwise the quantity read as an integer ("7" is 7,
\* "12" is 12); every identifier without a vendor record gets count 0.  The
\* matched records come first, one per removal, then the zero records of the
\* identifiers left in the list.
C8_Normalization ==
    pc = "called" =>
        LET matches == Len(listed) - Len(offer_ids) IN
        /\ \A i \in 1..Len(stocks) :
              IF i <= matches
              THEN \E j \in 1..Len(watch_remnants) :
                      /\ watch_remnants[j].code = StockId(stocks[i])
                      /\ StockNum(stocks[i]) = ClaimedCount(watch_remnants[j].quantity)
              ELSE /\ StockId(stocks[i]) = offer_ids[i - matches]
                   /\ StockNum(stocks[i]) = 0
        /\ \A i \in 1..Len(stocks) :
              StockId(stocks[i]) \notin WatchCodes => StockNum(stocks[i]) = 0
        /\ NoDuplicates(listed) =>
              \A id \in Range(listed) \cap WatchCodes :
                  \A i \in RecordsOf(stocks, id) :
                      LET q == FirstWatch(id).quantity
                          c == StockNum(stocks[i]) IN
                      /\ q = QtyMany => c = 100
                      /\ q = QtyOne => c = 0
                      /\ q = QtySeven => c = 7
                      /\ q = QtyTwelve => c = 12
                      /\ c = ClaimedCount(q)

\* C8 witness: one call that emitted 100 for ">10" and 7 for "7" and a zero
\* record for an identifier without vendor record
C8_Witness ==
    /\ pc = "called"
    /\ NoDuplicates(listed)
    /\ \E i, j, k \in 1..Len(stocks) :
          /\ StockNum(stocks[i]) = 100 /\ FirstWatch(StockId(stocks[i])).quantity = QtyMany
          /\ StockNum(stocks[j]) = 7
          /\ StockNum(stocks[k]) = 0 /\ StockId(stocks[k]) \notin WatchCodes

\* C7 as stated: two calls on copies of the same inputs give identical lists
\* in both variants, and a second call on the drained list does not.
C7_Original ==
    /\ pc = "again_copy" => stocks2 = stocks
    /\ pc = "again_same" => stocks2 # stocks

\* C7 amended: on copies the Ozon lists are identical and the Yandex Market
\* lists differ at most in updatedAt, which is the clock reading of each call;
\* on the drained list the second output differs whenever some vendor record's
\* code is in the list, and the Ozon output is the same when none is.
C7_Idempotence ==
    /\ (pc = "again_copy" /\ variant = "ozon") => stocks2 = stocks
    /\ (pc = "again_copy" /\ variant = "market") =>
          /\ Len(stocks2) = Len(stocks)
          /\ \A i \in 1..Len(stocks) :
                stocks2[i] = [stocks[i] EXCEPT !.items[1].updatedAt = clock]
    /\ (pc = "again_same" /\ WatchCodes \cap Range(listed) # {}) => stocks2 # stocks
    /\ (pc = "again_same" /\ WatchCodes \cap Range(listed) = {} /\ variant = "ozon")
          => stocks2 = stocks

\* C7 witness: the Yandex Market variant called twice on copies, one second
\* apart, with matched and fallback records
C7_Witness ==
    /\ pc = "again_copy" /\ variant = "market"
    /\ Len(stocks) = 3 /\ 0 < Len(offer_ids) /\ Len(offer_ids) < 3
    /\ stocks[1].items[1].updatedAt = 0
    /\ stocks2[1].items[1].updatedAt = 1

----------------------------------------------------------------------------
(* Batch uploader: divide and the upload loops *)

Min(a, b) == IF a < b THEN a ELSE b

\* lst[i : j] for 0 <= i <= j
Slice(s, i, j) == SubSeq(s, i + 1, Min(j, Len(s)))

\* a faulty divide whose range stops before a last, shorter chunk
RECURSIVE DivideWholeFrom(_, _, _)
DivideWholeFrom(s, i, size) ==
    IF i + size > Len(s) THEN <<>>
    ELSE <<Slice(s, i, i + size)>> \o DivideWholeFrom(s, i + size, size)

DivideWhole(s, size) == DivideWholeFrom(s, 0, size)

\* for i in range(0, len(lst), n): yield lst[i : i + n], from index i on
RECURSIVE DivideFrom(_, _, _)
DivideFrom(s, i, size) ==
    IF i >= Len(s) THEN <<>>
    ELSE <<Slice(s, i, i + size)>> \o DivideFrom(s, i + size, size)

\* list(divide(lst, n))
divide(s, size) == DivideFrom(s, 0, size)

\* what a failing requests call raises: raise_for_status' HTTPError, a read
\* timeout, a connection error
RequestErrors == {"HTTPError", "ReadTimeout", "ConnectionError"}

OzonStocksUrl == "v1/product/import/stocks"
OzonPricesUrl == "v1/product/import/prices"

WriteCall(endpoint, batch) == [endpoint |-> endpoint, batch |-> batch]

\* one pass of "for some in list(divide(...)): update(some, ...)" whose
\* write call returns
UpdateReturns(loop, endpoint) ==
    /\ pc = loop
    /\ taken < Len(chunks)
    /\ calls' = Append(calls, WriteCall(endpoint, chunks[taken + 1]))
    /\ taken' = taken + 1
    /\ UNCHANGED <<pc, raised, chunks>>

\* a faulty pass that swallows the error of the write call and goes on
UpdateRaisesSwallowed(loop, endpoint, handler) ==
    /\ pc = loop
    /\ taken < Len(chunks)
    /\ \E e \in RequestErrors : raised' = e
    /\ calls' = Append(calls, WriteCall(endpoint, chunks[taken + 1]))
    /\ taken' = taken + 1
    /\ UNCHANGED <<pc, chunks>>

\* one pass whose write call raises: the call was issued, the error leaves
\* the loop
UpdateRaises(loop, endpoint, handler) ==
    /\ pc = loop
    /\ taken < Len(chunks)
    /\ \E e \in RequestErrors : raised' = e
    /\ calls' = Append(calls, WriteCall(endpoint, chunks[taken + 1]))
    /\ taken' = taken + 1
    /\ pc' = handler
    /\ UNCHANGED chunks

\* the loop has walked every chunk
LoopEnds(loop, next) ==
    /\ pc = loop
    /\ taken = Len(chunks)
    /\ pc' = next
    /\ UNCHANGED <<raised, chunks, taken, calls>>

----------------------------------------------------------------------------
(* The upload loop on any list and chunk size *)

BatchInit ==
    /\ pc = "start"
    /\ raised = "none"
    /\ lst \in SeqsUpTo(Ids, MaxLen)
    /\ n \in 1..MaxChunk
    /\ LoopIdle /\ DataIdle /\ PriceIdle /\ FetchIdle /\ FeedIdle /\ RunIdle /\ ServerIdle

\* list(divide(lst, n)) is built before the first pass
BatchDivide ==
    /\ pc = "start"
    /\ chunks' = divide(lst, n)
    /\ taken' = 0
    /\ pc' = "update_stocks"
    /\ UNCHANGED <<raised, calls, lst, n, dataVars, priceVars, fetchVars, feedVars,
                   runVars, serverVars>>

BatchUpdateReturns ==
    UpdateReturns("update_stocks", OzonStocksUrl) /\ UNCHANGED <<lst, n, dataVars, priceVars, fetchVars, feedVars, runVars, serverVars>>

BatchUpdateRaises ==
    UpdateRaises("update_stocks", OzonStocksUrl, "raised") /\ UNCHANGED <<lst, n, dataVars, priceVars, fetchVars, feedVars, runVars, serverVars>>

BatchLoopEnds ==
    LoopEnds("update_stocks", "done") /\ UNCHANGED <<lst, n, dataVars, priceVars, fetchVars, feedVars, runVars, serverVars>>

BatchNext ==
    BatchDivide \/ BatchUpdateReturns \/ BatchUpdateRaises \/ BatchLoopEnds

SpecBatch == BatchInit /\ [][BatchNext]_vars

RECURSIVE Concat(_)
Concat(ss) == IF ss = <<>> THEN <<>> ELSE Head(ss) \o Concat(Tail(ss))

\* the c-th slice of size n of lst, counted from 1
NthSlice(c) == SubSeq(lst, (c - 1) * n + 1, Min(c * n, Len(lst)))

\* C3: the chunks of divide are consecutive slices whose concatenation is the
\* list, each of 1..n elements, ceil(len/n) of them; none for the empty list,
\* and one chunk equal to the list when n >= len > 0.
C3_Divide ==
    pc # "start" =>
        /\ Concat(chunks) = lst
        /\ \A c \in 1..Len(chunks) :
              /\ 1 <= Len(chunks[c]) /\ Len(chunks[c]) <= n
              /\ chunks[c] = NthSlice(c)
        /\ Len(chunks) = (Len(lst) + n - 1) \div n
        /\ lst = <<>> => chunks = <<>>
        /\ (n >= Len(lst) /\ lst # <<>>) => chunks = <<lst>>

\* C3 witness: a list cut into several chunks, the last one shorter
C3_Witness ==
    /\ pc # "start"
    /\ Len(lst) = 4 /\ n = 3
    /\ Len(chunks) = 2 /\ Len(chunks[2]) = 1

\* C4: the loop issues its write calls one per chunk, in list order; when it
\* ends without error every chunk was sent once; when the call for chunk k
\* raises, chunks 1..k-1 and k were sent, the loop is left with the error, and
\* no write call is issued afterwards.
C4_BatchUpload ==
    /\ [](/\ Len(calls) = taken
          /\ \A c \in 1..Len(calls) : calls[c] = WriteCall(OzonStocksUrl, NthSlice(c))
          /\ pc = "done" => (raised = "none" /\ Len(calls) = (Len(lst) + n - 1) \div n)
          /\ raised # "none" => pc = "raised")
    /\ [][raised # "none" => calls' = calls]_vars

\* C4 witness: the write call for the second of three chunks raised
C4_Witness ==
    /\ pc = "raised"
    /\ Len(chunks) = 3
    /\ Len(calls) = 2

----------------------------------------------------------------------------
(* price_conversion *)

\* price.split(".")[0]: the text before the first ".", all of it without one
RECURSIVE BeforeDot(_)
BeforeDot(s) ==
    IF s = <<>> \/ Head(s) = "." THEN <<>>
    ELSE <<Head(s)>> \o BeforeDot(Tail(s))

\* re.sub("[^0-9]", "", text)
RECURSIVE KeepDigits(_)
KeepDigits(s) ==
    IF s = <<>> THEN <<>>
    ELSE IF Head(s) \in DigitChars THEN <<Head(s)>> \o KeepDigits(Tail(s))
    ELSE KeepDigits(Tail(s))

\* only a str has split: anything else raises AttributeError
PriceRaises(cell) == cell.type # "str"

\* a faulty conversion that never cuts the fraction off
PriceDigitsOfAll(cell) == KeepDigits(cell.text)

\* price_conversion's returned text, for a str
price_conversion(cell) == KeepDigits(BeforeDot(cell.text))

PriceChars == {"5", "0", ".", "'", "x"}

PriceInputs ==
    { Str(t) : t \in SeqsUpTo(PriceChars, MaxPriceLen) }
        \cup {PriceHundred, PriceFifty, PriceRub, PriceNoDot, PriceFloat, Float(0)}

ConvInit ==
    /\ pc = "start"
    /\ raised = "none"
    /\ price \in PriceInputs
    /\ result = <<>>
    /\ DataIdle /\ LoopIdle /\ DivideIdle /\ FetchIdle /\ FeedIdle /\ RunIdle /\ ServerIdle

\* price_conversion(price) returns
ConvReturns ==
    /\ pc = "start"
    /\ ~PriceRaises(price)
    /\ result' = price_conversion(price)
    /\ pc' = "returned"
    /\ UNCHANGED <<raised, price, dataVars, loopVars, divideVars, fetchVars,
                   feedVars, runVars, serverVars>>

\* price_conversion(price) raises
ConvRaises ==
    /\ pc = "start"
    /\ PriceRaises(price)
    /\ raised' = "AttributeError"
    /\ pc' = "raised"
    /\ UNCHANGED <<result, price, dataVars, loopVars, divideVars, fetchVars,
                   feedVars, runVars, serverVars>>

ConvNext == ConvReturns \/ ConvRaises

SpecPrice == ConvInit /\ [][ConvNext]_vars

IsText(cell) == cell.type = "str"

HasDot(cell) == IsText(cell) /\ "." \in Range(cell.text)

\* the digits, in order, of the first m characters of a text
DigitsOfPrefix(t, m) == SelectSeq(SubSeq(t, 1, m), LAMBDA c : c \in DigitChars)

FirstDot(t) == CHOOSE i \in 1..Len(t) : t[i] = "." /\ \A j \in 1..(i - 1) : t[j] # "."

\* C9 as stated: a text with a "." gives the digits before the first "."; a
\* text without "." and a value that is no text make the call fail.
C9_Original ==
    pc # "start" =>
        /\ HasDot(price) =>
              (pc = "returned" /\ result = DigitsOfPrefix(price.text, FirstDot(price.text) - 1))
        /\ (IsText(price) /\ ~HasDot(price)) => pc = "raised"
        /\ ~IsText(price) => pc = "raised"

\* C9 amended: a text with a "." gives the digits, in order, of the part
\* before the first "."; a text without "." gives the digits of the whole text
\* and the call does not fail; the call fails exactly when the input is not a
\* text value.
C9_PriceConversion ==
    pc # "start" =>
        /\ HasDot(price) =>
              (pc = "returned" /\ result = DigitsOfPrefix(price.text, FirstDot(price.text) - 1))
        /\ (IsText(price) /\ ~HasDot(price)) =>
              (pc = "returned" /\ result = DigitsOfPrefix(price.text, Len(price.text)))
        /\ ~IsText(price) => (pc = "raised" /\ raised = "AttributeError")
        /\ price = PriceRub => result = <<"5", "9", "9", "0">>

\* C9 witness: "5'990.00 r." was converted, to "5990"
C9_Witness ==
    /\ pc = "returned"
    /\ price = PriceRub
    /\ result = <<"5", "9", "9", "0">>

----------------------------------------------------------------------------
(* Catalog fetcher: get_offer_ids of both platforms *)

FetchIds == {"A1", "A2"}

\* the item lists a page response can hold
OzonProduct(id) == [offer_id |-> id]
MarketEntry(id) == [offer |-> [shopSku |-> id]]

Absent == "<absent>"
Cursors == {"c1", "c2"}

\* "if not page": None and the empty string end the loop
Falsy(token) == token = "" \/ token = Absent

\* offer_ids of seller.get_offer_ids: product.get("offer_id") of each product
OzonOfferIds(products) == [i \in 1..Len(products) |-> products[i].offer_id]

\* offer_ids of market.get_offer_ids: product.get("offer").get("shopSku")
MarketOfferIds(products) == [i \in 1..Len(products) |-> products[i].offer.shopSku]

FetchInit ==
    /\ pc = "get_offer_ids"
    /\ raised = "none"
    /\ platform \in {"ozon", "market"}
    /\ last_id = "" /\ page = "" /\ product_list = <<>>
    /\ total = 0 /\ requests = 0 /\ sent = "" /\ issued = "" /\ served = {}
    /\ DataIdle /\ LoopIdle /\ DivideIdle /\ PriceIdle /\ FeedIdle /\ RunIdle /\ ServerIdle

fetchRest == <<watch_remnants, listed, stocks, stocks2, prices, clock, variant,
               loopVars, divideVars, priceVars, feedVars, runVars, serverVars>>

\* one pass of seller.get_offer_ids' loop: the request carries last_id, the
\* response's items are appended, and the loop ends when total equals the
\* number of products held
OzonPage ==
    /\ pc = "get_offer_ids" /\ platform = "ozon"
    /\ requests < MaxPages
    /\ \E ids \in SeqsUpTo(FetchIds, PageLen), t \in 0..MaxTotal, c \in Cursors \cup {""} :
         LET products == product_list \o [i \in 1..Len(ids) |-> OzonProduct(ids[i])] IN
         /\ sent' = last_id
         /\ issued' = c
         /\ served' = served \cup Range(ids)
         /\ product_list' = products
         /\ total' = t
         /\ last_id' = c
         /\ IF t = Len(products)
            THEN /\ offer_ids' = OzonOfferIds(products)
                 /\ pc' = "returned"
            ELSE /\ offer_ids' = offer_ids
                 /\ pc' = "get_offer_ids"
    /\ requests' = requests + 1
    /\ UNCHANGED <<raised, platform, page, fetchRest>>

\* one pass of market.get_offer_ids' loop: the request carries page, and the
\* loop ends when the response holds no nextPageToken
MarketPage ==
    /\ pc = "get_offer_ids" /\ platform = "market"
    /\ requests < MaxPages
    /\ \E ids \in SeqsUpTo(FetchIds, PageLen), c \in Cursors \cup {"", Absent} :
         LET products == product_list \o [i \in 1..Len(ids) |-> MarketEntry(ids[i])] IN
         /\ sent' = page
         /\ issued' = c
         /\ served' = served \cup Range(ids)
         /\ product_list' = products
         /\ page' = c
         /\ IF Falsy(c)
            THEN /\ offer_ids' = MarketOfferIds(products)
                 /\ pc' = "returned"
            ELSE /\ offer_ids' = offer_ids
                 /\ pc' = "get_offer_ids"
    /\ requests' = requests + 1
    /\ UNCHANGED <<raised, platform, last_id, total, fetchRest>>

\* a page request fails: get_product_list raises and get_offer_ids with it
PageRaises ==
    /\ pc = "get_offer_ids"
    /\ requests < MaxPages
    /\ \E e \in RequestErrors : raised' = e
    /\ sent' = IF platform = "ozon" THEN last_id ELSE page
    /\ requests' = requests + 1
    /\ pc' = "raised"
    /\ UNCHANGED <<platform, last_id, page, product_list, total, issued, served,
                   offer_ids, fetchRest>>

FetchNext == OzonPage \/ MarketPage \/ PageRaises

SpecFetch == FetchInit /\ [][FetchNext]_vars

\* C5: when the fetch returns, the returned list holds the identifier of every
\* item of every page served and holds no identifier twice.
C5_CompleteDeduplicated ==
    pc = "returned" =>
        /\ served \subseteq Range(offer_ids)
        /\ NoDuplicates(offer_ids)

----------------------------------------------------------------------------
(* Pagination of get_offer_ids against a finite catalog *)

MaxChanges == 2

\* the order in which the marketplace lists identifiers; a cursor names the
\* last identifier served, the empty cursor stands before the first one
IdOrder == <<"A1", "A2", "A3">>

Rank(id) == IF id = "" THEN 0 ELSE CHOOSE i \in 1..Len(IdOrder) : IdOrder[i] = id

\* a finite catalog: the identifiers of a set, in listing order
CatalogOf(S) == SelectSeq(IdOrder, LAMBDA id : id \in S)

\* the listings after a cursor and the page get_product_list is answered with
AfterCursor(cursor) == SelectSeq(catalog, LAMBDA id : Rank(id) > Rank(cursor))

PageOf(cursor) == SubSeq(AfterCursor(cursor), 1, Min(PageLen, Len(AfterCursor(cursor))))

\* the cursor a response carries: the last identifier of its page, and the
\* cursor of the request when the page is empty
CursorAfter(cursor) ==
    IF PageOf(cursor) = <<>> THEN cursor ELSE PageOf(cursor)[Len(PageOf(cursor))]

\* whether listings remain after the page answered to a cursor
MorePages(cursor) == Len(AfterCursor(cursor)) > Len(PageOf(cursor))

PagingInit ==
    /\ pc = "get_offer_ids"
    /\ raised = "none"
    /\ platform \in {"ozon", "market"}
    /\ last_id = "" /\ page = "" /\ product_list = <<>>
    /\ total = 0 /\ requests = 0 /\ sent = "" /\ issued = "" /\ served = {}
    /\ catalog \in {CatalogOf(S) : S \in SUBSET Range(IdOrder)}
    /\ changes = 0
    /\ DataIdle /\ LoopIdle /\ DivideIdle /\ PriceIdle /\ FeedIdle /\ RunIdle

pagingRest == <<watch_remnants, listed, stocks, stocks2, prices, clock, variant,
                loopVars, divideVars, priceVars, feedVars, runVars>>

\* get_product_list is called with the cursor the loop holds; requests counts
\* the calls up to MaxPages and stays there
PagingRequest ==
    /\ pc = "get_offer_ids"
    /\ sent' = IF platform = "ozon" THEN last_id ELSE page
    /\ requests' = Min(requests + 1, MaxPages)
    /\ pc' = "get_product_list"
    /\ UNCHANGED <<raised, platform, last_id, page, product_list, total, issued,
                   served, offer_ids, serverVars, pagingRest>>

\* Ozon answers with the page after the cursor, the size of the catalog at
\* that moment and the new cursor; the loop body of seller.get_offer_ids
\* takes the answer in and ends when total equals the number of products held
PagingOzonResponse ==
    /\ pc = "get_product_list" /\ platform = "ozon"
    /\ LET ids == PageOf(sent)
           products == product_list \o [i \in 1..Len(ids) |-> OzonProduct(ids[i])]
       IN
       /\ issued' = CursorAfter(sent)
       /\ served' = served \cup Range(ids)
       /\ product_list' = products
       /\ total' = Len(catalog)
       /\ last_id' = CursorAfter(sent)
       /\ IF Len(catalog) = Len(products)
          THEN /\ offer_ids' = OzonOfferIds(products)
               /\ pc' = "returned"
          ELSE /\ offer_ids' = offer_ids
               /\ pc' = "get_offer_ids"
    /\ UNCHANGED <<raised, platform, page, requests, sent, serverVars, pagingRest>>

\* Yandex Market answers with the page after the cursor and a nextPageToken,
\* which is empty or absent when no listing remains; the loop body of
\* market.get_offer_ids takes the answer in and ends on "not page"
PagingMarketResponse ==
    /\ pc = "get_product_list" /\ platform = "market"
    /\ \E token \in IF MorePages(sent) THEN {CursorAfter(sent)} ELSE {"", Absent} :
         LET ids == PageOf(sent)
             products == product_list \o [i \in 1..Len(ids) |-> MarketEntry(ids[i])]
         IN
         /\ issued' = token
         /\ served' = served \cup Range(ids)
         /\ product_list' = products
         /\ page' = token
         /\ IF Falsy(token)
            THEN /\ offer_ids' = MarketOfferIds(products)
                 /\ pc' = "returned"
            ELSE /\ offer_ids' = offer_ids
                 /\ pc' = "get_offer_ids"
    /\ UNCHANGED <<raised, platform, last_id, total, requests, sent, serverVars,
                   pagingRest>>

\* the page request fails: get_product_list raises and get_offer_ids with it
PagingRaises ==
    /\ pc = "get_product_list"
    /\ \E e \in RequestErrors : raised' = e
    /\ pc' = "raised"
    /\ UNCHANGED <<platform, last_id, page, product_list, total, requests, sent,
                   issued, served, offer_ids, serverVars, pagingRest>>

\* the seller lists or unlists a product while the fetch is under way
ListingAdded ==
    /\ pc \in {"get_offer_ids", "get_product_list"}
    /\ changes < MaxChanges
    /\ \E id \in Range(IdOrder) \ Range(catalog) :
         catalog' = CatalogOf(Range(catalog) \cup {id})
    /\ changes' = changes + 1
    /\ UNCHANGED <<pc, raised, fetchVars, offer_ids, pagingRest>>

ListingRemoved ==
    /\ pc \in {"get_offer_ids", "get_product_list"}
    /\ changes < MaxChanges
    /\ \E id \in Range(catalog) :
         catalog' = CatalogOf(Range(catalog) \ {id})
    /\ changes' = changes + 1
    /\ UNCHANGED <<pc, raised, fetchVars, offer_ids, pagingRest>>

\* the marketplace answers every request, with a page or with an error
PagingAnswer == PagingOzonResponse \/ PagingMarketResponse \/ PagingRaises

PagingNext == PagingRequest \/ PagingAnswer \/ ListingAdded \/ ListingRemoved

\* the loop is sequential code: it issues its next request, and every request
\* is answered
SpecPaging ==
    /\ PagingInit
    /\ [][PagingNext]_vars
    /\ WF_vars(PagingRequest)
    /\ WF_vars(PagingAnswer)

\* the last response said that no page follows
NoFurtherPages ==
    IF platform = "ozon" THEN total = Len(product_list) ELSE Falsy(page)

\* each request carries the cursor of the previous response, empty at first
CursorCarried == pc = "get_product_list" => sent = issued

\* the loop stops exactly after the first response without further pages
StopsAtSignal ==
    /\ pc = "returned" => NoFurtherPages
    /\ (pc = "get_offer_ids" /\ requests > 0) => ~NoFurtherPages

FetchEnded == pc \in {"returned", "raised"}

\* C11: each page request carries the cursor of the previous response, the
\* loop stops exactly after the first response that signals no further pages,
\* and for every finite catalog served page by page the fetch eventually
\* ends, on Ozon also when the reported total changes between pages or the
\* accumulated count passes the total.
C11_PaginationTerminates ==
    /\ [](CursorCarried /\ StopsAtSignal)
    /\ <>FetchEnded

----------------------------------------------------------------------------
(* create_prices *)

OzonPrice(code, text) ==
    [auto_action_enabled |-> "UNKNOWN", currency_code |-> "RUB",
     offer_id |-> code, old_price |-> "0", price |-> text]

\* seller.create_prices: a price record for every vendor record whose code is
\* in the list; the list is only read.  raised tells that price_conversion
\* raised on the way.
RECURSIVE PriceLoop(_, _, _)
PriceLoop(watches, ids, out) ==
    IF watches = <<>> THEN [prices |-> out, raised |-> FALSE]
    ELSE LET watch == Head(watches) IN
         IF watch.code \in Range(ids)
         THEN IF PriceRaises(watch.price)
              THEN [prices |-> out, raised |-> TRUE]
              ELSE PriceLoop(Tail(watches), ids,
                             Append(out, OzonPrice(watch.code, price_conversion(watch.price))))
         ELSE PriceLoop(Tail(watches), ids, out)

create_prices(watches, ids) == PriceLoop(watches, ids, <<>>)

----------------------------------------------------------------------------
(* One sync run: seller.main (platform "ozon") or market.main ("market") *)

\* chunk sizes of main's upload loops
OzonStocksChunk == 100
OzonPricesChunk == 900
MarketStocksChunk == 2000

MarketStocksUrl(c) ==
    IF c = "fbs" THEN "campaigns/fbs/offers/stocks" ELSE "campaigns/dbs/offers/stocks"

WarehouseOf(c) == IF c = "fbs" THEN "warehouse_fbs" ELSE "warehouse_dbs"

\* the vendor feeds a run can meet
RunFeeds ==
    { <<>>,
      <<Watch("A1", QtyMany, PriceHundred), Watch("A2", QtyOne, PriceFifty)>>,
      <<Watch("A3", QtySeven, PriceRub), Watch("A1", QtyTwelve, PriceNoDot)>>,
      <<Watch("A1", QtyMany, PriceHundred), Watch("A2", QtyBlank, PriceFifty)>>,
      <<Watch("A3", QtySeven, PriceFloat)>> }

RunInit ==
    /\ platform \in {"ozon", "market"}
    /\ pc = IF platform = "ozon" THEN "get_offer_ids" ELSE "download_stock"
    /\ raised = "none"
    /\ archive \in RunFeeds
    /\ file = NoFile
    /\ printed = "none" /\ campaign = "none"
    /\ last_id = "" /\ page = "" /\ product_list = <<>>
    /\ total = 0 /\ requests = 0 /\ sent = "" /\ issued = "" /\ served = {}
    /\ DataIdle /\ LoopIdle /\ DivideIdle /\ PriceIdle /\ ServerIdle

\* what no step of a run touches
runFrame == <<stocks2, variant, divideVars, priceVars, platform, last_id, page,
              product_list, total, sent, issued, served, archive, serverVars>>

\* where an error raised by download_stock goes: seller.main calls it inside
\* the try block, market.main before it
FeedHandler == IF platform = "ozon" THEN "except" ELSE "escaped"

\* download_stock: session.get and raise_for_status return
FeedGet ==
    /\ pc = "download_stock"
    /\ pc' = "extract"
    /\ UNCHANGED <<raised, requests, dataVars, loopVars, file, runVars, runFrame>>

\* download_stock: session.get or raise_for_status raises
FeedGetRaises ==
    /\ pc = "download_stock"
    /\ \E e \in RequestErrors : raised' = e
    /\ pc' = FeedHandler
    /\ UNCHANGED <<requests, dataVars, loopVars, file, runVars, runFrame>>

\* download_stock: the archive is opened and ostatki.xls extracted
FeedExtract ==
    /\ pc = "extract"
    /\ file' = [exists |-> TRUE, rows |-> archive]
    /\ pc' = "read_excel"
    /\ UNCHANGED <<raised, requests, dataVars, loopVars, runVars, runFrame>>

\* download_stock: the response is no zip archive
FeedExtractRaises ==
    /\ pc = "extract"
    /\ raised' = "BadZipFile"
    /\ pc' = FeedHandler
    /\ UNCHANGED <<requests, dataVars, loopVars, file, runVars, runFrame>>

\* download_stock: pd.read_excel parses the extracted file
FeedRead ==
    /\ pc = "read_excel"
    /\ watch_remnants' = file.rows
    /\ pc' = "remove"
    /\ UNCHANGED <<raised, requests, listed, offer_ids, stocks, stocks2, prices,
                   clock, variant, loopVars, file, runVars, divideVars, priceVars,
                   platform, last_id, page, product_list, total, sent, issued,
                   served, archive, serverVars>>

\* download_stock: pd.read_excel raises on the extracted file
FeedReadRaises ==
    /\ pc = "read_excel"
    /\ raised' = "XLRDError"
    /\ pc' = FeedHandler
    /\ UNCHANGED <<requests, dataVars, loopVars, file, runVars, runFrame>>

\* download_stock: os.remove, then the records are returned
FeedRemove ==
    /\ pc = "remove"
    /\ file' = NoFile
    /\ pc' = IF platform = "ozon" THEN "create_stocks" ELSE "get_offer_ids"
    /\ campaign' = IF platform = "ozon" THEN campaign ELSE "fbs"
    /\ UNCHANGED <<raised, requests, dataVars, loopVars, printed, runFrame>>

\* get_offer_ids returns the identifiers of the pages it was served
RunGetOfferIds ==
    /\ pc = "get_offer_ids"
    /\ \E ids \in SeqsUpTo(Ids, MaxOffers) :
         /\ offer_ids' = ids
         /\ listed' = ids
    /\ requests' = requests + 1
    /\ pc' = IF platform = "ozon" THEN "download_stock" ELSE "create_stocks"
    /\ UNCHANGED <<raised, watch_remnants, stocks, stocks2, prices, clock, variant,
                   loopVars, file, runVars, divideVars, priceVars, platform,
                   last_id, page, product_list, total, sent, issued, served,
                   archive, serverVars>>

\* a page request of get_offer_ids raises
RunGetOfferIdsRaises ==
    /\ pc = "get_offer_ids"
    /\ \E e \in RequestErrors : raised' = e
    /\ requests' = requests + 1
    /\ pc' = "except"
    /\ UNCHANGED <<dataVars, loopVars, file, runVars, runFrame>>

\* stocks = create_stocks(watch_remnants, offer_ids[, warehouse]) and
\* list(divide(stocks, size)) of the loop that follows
RunCreateStocks ==
    /\ pc = "create_stocks"
    /\ LET m == MatchLoop(watch_remnants, offer_ids, <<>>)
           out == IF platform = "ozon"
                  THEN create_stocks(watch_remnants, offer_ids)
                  ELSE market_create_stocks(watch_remnants, offer_ids,
                                            WarehouseOf(campaign), clock)
           size == IF platform = "ozon" THEN OzonStocksChunk ELSE MarketStocksChunk
       IN
       /\ offer_ids' = m.rest
       /\ IF m.raised
          THEN /\ raised' = "ValueError"
               /\ pc' = "except"
               /\ UNCHANGED <<stocks, chunks, taken>>
          ELSE /\ stocks' = out
               /\ chunks' = divide(out, size)
               /\ taken' = 0
               /\ pc' = "update_stocks"
               /\ UNCHANGED raised
    /\ UNCHANGED <<requests, watch_remnants, listed, stocks2, prices, clock, variant,
                   calls, file, runVars, divideVars, priceVars, platform, last_id,
                   page, product_list, total, sent, issued, served, archive, serverVars>>

StocksUrl == IF platform = "ozon" THEN OzonStocksUrl ELSE MarketStocksUrl(campaign)

runLoopFrame == <<requests, dataVars, file, runVars, runFrame>>

RunUpdateStocks ==
    UpdateReturns("update_stocks", StocksUrl) /\ UNCHANGED runLoopFrame

RunUpdateStocksRaises ==
    UpdateRaises("update_stocks", StocksUrl, "except") /\ UNCHANGED runLoopFrame

RunStocksSent ==
    /\ LoopEnds("update_stocks", IF platform = "ozon" THEN "create_prices"
                                 ELSE "upload_prices")
    /\ UNCHANGED runLoopFrame

\* seller.main: prices = create_prices(watch_remnants, offer_ids), with the
\* list create_stocks was given, and list(divide(prices, 900))
RunCreatePrices ==
    /\ pc = "create_prices"
    /\ LET r == create_prices(watch_remnants, offer_ids) IN
       IF r.raised
       THEN /\ raised' = "AttributeError"
            /\ pc' = "except"
            /\ UNCHANGED <<prices, chunks, taken>>
       ELSE /\ prices' = r.prices
            /\ chunks' = divide(r.prices, OzonPricesChunk)
            /\ taken' = 0
            /\ pc' = "update_price"
            /\ UNCHANGED raised
    /\ UNCHANGED <<requests, watch_remnants, listed, offer_ids, stocks, stocks2,
                   clock, variant, calls, file, runVars, divideVars, priceVars,
                   platform, last_id, page, product_list, total, sent, issued,
                   served, archive, serverVars>>

RunUpdatePrice ==
    UpdateReturns("update_price", OzonPricesUrl) /\ UNCHANGED runLoopFrame

RunUpdatePriceRaises ==
    UpdateRaises("update_price", OzonPricesUrl, "except") /\ UNCHANGED runLoopFrame

RunPricesSent ==
    LoopEnds("update_price", "done") /\ UNCHANGED runLoopFrame

\* market.main: upload_prices(...) is a coroutine function called without
\* await; the call builds a coroutine object and runs none of its body
RunUploadPricesCall ==
    /\ pc = "upload_prices"
    /\ pc' = IF campaign = "fbs" THEN "get_offer_ids" ELSE "done"
    /\ campaign' = IF campaign = "fbs" THEN "dbs" ELSE campaign
    /\ UNCHANGED <<raised, requests, dataVars, loopVars, file, printed, runFrame>>

\* the message of main's except clauses
Message(e) ==
    IF e = "ReadTimeout" THEN "timeout"
    ELSE IF e = "ConnectionError" THEN "connection error"
    ELSE "ERROR_2"

\* main's handler prints and the run ends
RunExcept ==
    /\ pc = "except"
    /\ printed' = Message(raised)
    /\ pc' = "done"
    /\ UNCHANGED <<raised, requests, dataVars, loopVars, file, campaign, runFrame>>

\* the clock moves on while market.main runs
RunTick ==
    /\ platform = "market"
    /\ pc \notin {"done", "escaped"}
    /\ clock < MaxClock
    /\ clock' = clock + 1
    /\ UNCHANGED <<pc, raised, requests, watch_remnants, listed, offer_ids, stocks,
                   stocks2, prices, variant, loopVars, file, runVars, runFrame>>

Next ==
    \/ FeedGet \/ FeedGetRaises \/ FeedExtract \/ FeedExtractRaises
    \/ FeedRead \/ FeedReadRaises \/ FeedRemove
    \/ RunGetOfferIds \/ RunGetOfferIdsRaises
    \/ RunCreateStocks \/ RunUpdateStocks \/ RunUpdateStocksRaises \/ RunStocksSent
    \/ RunCreatePrices \/ RunUpdatePrice \/ RunUpdatePriceRaises \/ RunPricesSent
    \/ RunUploadPricesCall \/ RunExcept \/ RunTick

Spec == RunInit /\ [][Next]_vars

----------------------------------------------------------------------------
(* Properties of a sync run, checked under Spec *)

ScenarioFeed ==
    <<Watch("A1", QtyMany, PriceHundred), Watch("A2", QtyOne, PriceFifty)>>

PriceRecordsOf(id) == { i \in 1..Len(prices) : prices[i].offer_id = id }

\* C2: an Ozon run that ends without error on vendor records A1 (">10",
\* "100.00 x"), A2 ("1", "50.00 x") and fetched identifiers A1, A2, A3 has stock
\* output {A1,100},{A2,0},{A3,0} and price output {A1,"100"},{A2,"50"}; in
\* every such run the price output holds one record for each fetched
\* identifier with a vendor record and none for the others.
C2_EndToEnd ==
    (platform = "ozon" /\ pc = "done" /\ raised = "none") =>
        /\ (watch_remnants = ScenarioFeed /\ listed = <<"A1", "A2", "A3">>) =>
              /\ stocks = <<OzonStock(<<"A1", 100>>), OzonStock(<<"A2", 0>>),
                            OzonStock(<<"A3", 0>>)>>
              /\ Len(prices) = 2
              /\ prices[1].offer_id = "A1" /\ prices[1].price = <<"1", "0", "0">>
              /\ prices[2].offer_id = "A2" /\ prices[2].price = <<"5", "0">>
        /\ \A id \in Range(listed) :
              Cardinality(PriceRecordsOf(id)) = IF id \in WatchCodes THEN 1 ELSE 0

\* C6: no error escapes main; a run that ends after an error has printed a
\* message; and once an error is raised no further marketplace call is made.
C6_ErrorPropagation ==
    /\ [](pc # "escaped")
    /\ []((pc = "done" /\ raised # "none") => printed # "none")
    /\ [][raised # "none" => (calls' = calls /\ requests' = requests)]_vars

\* C10: whenever download_stock has exited, by returning or by raising,
\* ostatki.xls is not in the working directory.
C10_NoFileLeft ==
    pc \notin {"read_excel", "remove"} => ~file.exists

\* the price endpoint of a campaign: campaigns/{campaign_id}/offer-prices/updates
MarketPricesUrl(c) ==
    IF c = "fbs" THEN "campaigns/fbs/offer-prices/updates"
    ELSE "campaigns/dbs/offer-prices/updates"

PriceCalls(c) == { i \in 1..Len(calls) : calls[i].endpoint = MarketPricesUrl(c) }

StockCalls(c) == { i \in 1..Len(calls) : calls[i].endpoint = MarketStocksUrl(c) }

\* the price write call i carries a record for the identifier
PricedIn(i, id) == \E j \in 1..Len(calls[i].batch) : calls[i].batch[j].id = id

\* market.main is past the upload_prices call of a campaign: of FBS when it
\* turns to the DBS catalog, of DBS when the run is over
CampaignEnded ==
    \/ pc = "get_offer_ids" /\ campaign = "dbs"
    \/ pc = "done" /\ campaign = "dbs"

EndedCampaign == IF pc = "done" THEN "dbs" ELSE "fbs"

\* C12: in a Yandex Market run in which no call fails, once main is past a
\* campaign the price endpoint of that campaign has received a price record
\* for every fetched identifier with a vendor record, in calls that come after
\* the stock write calls of the campaign.
C12_MarketPricesFollowStocks ==
    (platform = "market" /\ raised = "none" /\ CampaignEnded) =>
        /\ \A id \in Range(listed) \cap WatchCodes :
              \E i \in PriceCalls(EndedCampaign) : PricedIn(i, id)
        /\ \A i \in PriceCalls(EndedCampaign), j \in StockCalls(EndedCampaign) : j < i

----------------------------------------------------------------------------
(* What create_stocks and create_prices do to the list they are given *)

\* prices = create_prices(watch_remnants, offer_ids): the list is only read,
\* by "watch.get(...) in offer_ids"
CallCreatePrices ==
    /\ pc = "start"
    /\ LET r == create_prices(watch_remnants, offer_ids) IN
       IF r.raised
       THEN /\ raised' = "AttributeError"
            /\ prices' = prices
            /\ pc' = "raised"
       ELSE /\ raised' = raised
            /\ prices' = r.prices
            /\ pc' = "priced"
    /\ UNCHANGED <<watch_remnants, listed, offer_ids, stocks, stocks2, clock,
                   variant, reconRest>>

DrainNext == CallCreateStocks \/ CallCreatePrices

SpecDrain == ReconInit /\ [][DrainNext]_vars

\* the identifiers of the list given that have no vendor record, in order
Unmatched == SelectSeq(listed, LAMBDA id : id \notin WatchCodes)

\* the records create_stocks emitted for a match: all but the count-0 records
\* appended for the identifiers left in the list
MatchedRecords == Len(stocks) - Len(offer_ids)

\* C13: when create_stocks returns, the list it was given has lost one
\* identifier per matched record emitted and holds exactly the identifiers
\* without a vendor record, in their original order; create_prices leaves the
\* list it is given unchanged.
C13_DrainPostcondition ==
    /\ pc = "called" =>
          /\ Len(listed) - Len(offer_ids) = MatchedRecords
          /\ offer_ids = Unmatched
    /\ pc = "priced" => offer_ids = listed

====
